---- MODULE Spec2Model ----
(***************************************************************************)
(* Model of src/memcleaner.py (StreamLitMemCleaner): the cleanup           *)
(* orchestration (MemoryCleanup.execute_cleanup driven by                  *)
(* HomePageUI._handle_cleanup), the CSV history store                      *)
(* (MemoryHistoryManager) and the version check                            *)
(* (UpdatesPageUI._check_for_updates).                                     *)
(*                                                                         *)
(* A Streamlit session is one script thread; Sessions are the threads that *)
(* can run the handlers.  Memory values are integers in thousandths of a   *)
(* GB (the model's samples are multiples of 1/8 GB, which binary floats    *)
(* hold exactly, so the integer arithmetic is the float arithmetic).       *)
(* Text is a sequence of one-character strings, so that formatting and     *)
(* parsing are computed and not assumed.                                   *)
(***************************************************************************)
EXTENDS Integers, Sequences, FiniteSets, TLC

\* ------------------------------------------------------------------ bounds

\* Most history records the store is allowed to grow to before a new cleanup
\* is started in the model.
MaxRecords == 2

\* Longest version-file content (in characters) the model writes.
MaxVersionLen == 2

\* ------------------------------------------------------- program constants

\* class CleanupCommand(str, Enum): the four tool tokens.
CleanupCommand ==
    {"modifiedpagelist", "standbylist", "priority0standbylist", "workingsets"}

\* CLEANUP_DESCRIPTIONS: the description of each command.
CLEANUP_DESCRIPTIONS ==
    [c \in CleanupCommand |->
        CASE c = "modifiedpagelist" -> "Clear modified page list"
          [] c = "standbylist" -> "Clear standby list"
          [] c = "priority0standbylist" -> "Clear priority 0 standby list"
          [] OTHER -> "Clear working sets"]

\* The columns save_record writes, in order.
Columns ==
    << <<"Timestamp">>, <<"Free Memory Before">>,
       <<"Free Memory After">>, <<"Freed Memory">> >>

\* ------------------------------------------------------------ input ranges

Sessions == {1, 2}

\* psutil's free memory in thousandths of a GB: 0 (also the zeroed snapshot
\* get_memory_info returns when the query fails), 0.125 and 0.375 (exact
\* ties of the two-decimal rounding).
FreeSamples == {0, 125, 375}

\* datetime.now() formatted "%Y-%m-%d %H:%M:%S", as one token.
Timestamps == {"2024-01-01 00:00:00", "2024-01-01 00:00:01"}

\* ------------------------------------------------------------------- text

Digit == <<"0", "1", "2", "3", "4", "5", "6", "7", "8", "9">>

DigitOf(c) == CHOOSE d \in 0..9 : Digit[d + 1] = c

IsDigit(c) == \E d \in 0..9 : Digit[d + 1] = c

Abs(x) == IF x < 0 THEN -x ELSE x

RECURSIVE IntText(_)
\* str(n) for a natural number n.
IntText(n) ==
    IF n < 10 THEN <<Digit[n + 1]>>
    ELSE IntText(n \div 10) \o <<Digit[(n % 10) + 1]>>

RECURSIVE TextInt(_)
\* int(t) for a non-empty text of digits.
TextInt(t) ==
    IF Len(t) = 0 THEN 0
    ELSE 10 * TextInt(SubSeq(t, 1, Len(t) - 1)) + DigitOf(t[Len(t)])

\* f"{x:.2f}" for x >= 0 in thousandths: round to hundredths, ties to even
\* (the value is exact, so a tie is a real tie), two decimals always.
Format2f(x) ==
    LET q == x \div 10
        r == x % 10
        h == IF r > 5 \/ (r = 5 /\ q % 2 = 1) THEN q + 1 ELSE q
    IN IntText(h \div 100) \o <<".">>
         \o <<Digit[((h \div 10) % 10) + 1], Digit[(h % 10) + 1]>>

\* repr(float) for x >= 0 in thousandths, as to_csv writes a float64 cell:
\* the shortest decimal, with at least one digit after the point.
FloatRepr(x) ==
    LET d1 == (x \div 100) % 10
        d2 == (x \div 10) % 10
        d3 == x % 10
        frac == IF d3 # 0 THEN <<Digit[d1 + 1], Digit[d2 + 1], Digit[d3 + 1]>>
                ELSE IF d2 # 0 THEN <<Digit[d1 + 1], Digit[d2 + 1]>>
                ELSE <<Digit[d1 + 1]>>
    IN IntText(x \div 1000) \o <<".">> \o frac

\* Position of the decimal point in t, 0 when there is none.
PointAt(t) ==
    IF \E k \in 1..Len(t) : t[k] = "."
    THEN CHOOSE k \in 1..Len(t) : t[k] = "." /\ \A j \in 1..(k - 1) : t[j] # "."
    ELSE 0

\* Whether read_csv takes the cell for a number: digits, a point, digits
\* (at most three decimals in the model's unit).
IsNumeric(t) ==
    LET p == PointAt(t)
    IN /\ p > 1
       /\ Len(t) > p
       /\ Len(t) - p <= 3
       /\ \A k \in 1..Len(t) : k = p \/ IsDigit(t[k])

\* float(t) in thousandths, for a numeric text.
ParseFloat(t) ==
    LET p == PointAt(t)
        frac == SubSeq(t, p + 1, Len(t))
        scale == IF Len(frac) = 1 THEN 100 ELSE IF Len(frac) = 2 THEN 10 ELSE 1
    IN 1000 * TextInt(SubSeq(t, 1, p - 1)) + scale * TextInt(frac)

\* ------------------------------------------------------- pandas DataFrame

\* A DataFrame cell: a str (object dtype) or a float64.
StrCell(t) == [dtype |-> "object", text |-> t, val |-> 0]

FloatCell(v) == [dtype |-> "float64", text |-> <<>>, val |-> v]

NoFrame == [columns |-> <<>>, rows |-> <<>>]

\* The history file: absent, or its lines, each a sequence of cell texts.
NoFile == [exists |-> FALSE, lines |-> <<>>]

\* pd.read_csv fails on a missing file and on a file with no line at all
\* (EmptyDataError).
CanReadCsv(f) == f.exists /\ Len(f.lines) > 0

\* pd.read_csv(path): the first line names the columns; a column whose
\* cells are all numbers becomes float64, any other column stays str.
read_csv(f) ==
    LET body == Tail(f.lines)
        numeric(j) ==
            /\ Len(body) > 0
            /\ \A k \in 1..Len(body) : IsNumeric(body[k][j])
        cell(k, j) ==
            IF numeric(j) THEN FloatCell(ParseFloat(body[k][j]))
            ELSE StrCell(body[k][j])
    IN [columns |-> f.lines[1],
        rows |-> [k \in 1..Len(body) |->
                     [j \in 1..Len(body[k]) |-> cell(k, j)]]]

\* df.to_csv(path, index=False): the column names, then every row; a float
\* is written as its repr, a str as it is.
to_csv(df) ==
    LET text(c) == IF c.dtype = "float64" THEN FloatRepr(c.val) ELSE c.text
    IN [exists |-> TRUE,
        lines |-> <<df.columns>> \o
                  [k \in 1..Len(df.rows) |->
                      [j \in 1..Len(df.rows[k]) |-> text(df.rows[k][j])]]]

\* concat that keeps only the new frame.
concat_new_only(a, b) == b

\* pd.concat([a, b], ignore_index=True) of two frames with the same columns.
concat(a, b) == [columns |-> a.columns, rows |-> a.rows \o b.rows]

\* ------------------------------------------------------- results, sessions

NoError == [msg |-> "None", cmd |-> "", output |-> ""]

\* The CleanupResult of a failed run (lines 173 and 189-195).
FailureResult(msg, cmd, output, before) ==
    [success |-> FALSE,
     error |-> [msg |-> msg, cmd |-> cmd, output |-> output],
     memory_before |-> before, memory_after |-> 0, freed_memory |-> 0]

\* SuccessResult with the freed memory made absolute.
SuccessResult_abs(before, after) ==
    [success |-> TRUE, error |-> NoError,
     memory_before |-> before, memory_after |-> after,
     freed_memory |-> Abs(after - before)]

\* The CleanupResult of a successful run (lines 197-207).
SuccessResult(before, after) ==
    [success |-> TRUE, error |-> NoError,
     memory_before |-> before, memory_after |-> after,
     freed_memory |-> after - before]

NoResult == FailureResult("None", "", "", 0)

NoReturn == [call |-> "none", value |-> FALSE]

\* A script thread with no handler running: every local at its default.
\*   pc                 where the thread is
\*   selected_commands  _handle_cleanup's argument
\*   i                  commands of the loop completed
\*   memory_before      execute_cleanup's first sample
\*   result             what execute_cleanup returned
\*   calls              the CommandExecutor.run calls of this run, in order
\*   sampled            the get_memory_info samples of this run, in order
\*   new_data, memory_df  save_record's frames
\*   ret                what the last history-manager call returned
\*   save_calls         save_record calls of this handler
\*   shown              the st.* messages of this handler, in order
\*   uncaught           an exception left the handler
\*   pressed            the history button whose st.button returned True in
\*                      this script run
Idle ==
    [pc |-> "idle", selected_commands |-> <<>>, i |-> 0, memory_before |-> 0,
     result |-> NoResult, calls |-> <<>>, sampled |-> <<>>,
     new_data |-> NoFrame, memory_df |-> NoFrame, ret |-> NoReturn,
     save_calls |-> 0, shown |-> <<>>, uncaught |-> FALSE, pressed |-> "none"]

VARIABLES
    session,        \* [Sessions -> the thread's record]
    memory_csv,     \* PATHS.memory_csv, the history file
    exe_full,       \* whether PATHS.exe_full, the tool, exists
    version_file,   \* PATHS.version_file: absent, or its characters
    verdict,        \* what _check_for_updates last displayed
    session_state,  \* [Sessions -> st.session_state and the page it left]
    view            \* the page of the history table last displayed

vars == <<session, memory_csv, exe_full, version_file, verdict,
          session_state, view>>

\* --------------------------------------------------------- input ranges 2

RECURSIVE Arrangements(_, _)
\* The sequences of n distinct elements of S.
Arrangements(S, n) ==
    IF n = 0 THEN {<<>>}
    ELSE UNION {{Append(q, c) : c \in S \ {q[k] : k \in 1..Len(q)}} :
                   q \in Arrangements(S, n - 1)}

\* What st.multiselect can return: the chosen commands, each once, in the
\* order they were chosen; nothing chosen is the empty sequence.
Selections == UNION {Arrangements(CleanupCommand, n) : n \in 0..Cardinality(CleanupCommand)}

\* What subprocess.run can do with the tool: raise before any process runs
\* (launched = FALSE), or run it to an exit status.
ToolOutcomes ==
    {[launched |-> TRUE, stdout |-> "", returncode |-> 0],
     [launched |-> TRUE, stdout |-> "diagnostic", returncode |-> 1]}

\* Records in the history file (lines after the column names).
HistoryLen(f) == IF Len(f.lines) = 0 THEN 0 ELSE Len(f.lines) - 1

\* ------------------------------------------------------ MemoryCleanup

\* execute_cleanup_enter with the sample taken before the existence check.
execute_cleanup_enter_samples_first(r, exe_exists, free) ==
    IF ~exe_exists
    THEN [r EXCEPT !.pc = "returned",
                   !.sampled = Append(@, free),
                   !.result = FailureResult("Executable not found", "", "", free),
                   !.shown = Append(@, "error: Executable not found")]
    ELSE [r EXCEPT !.pc = "running",
                   !.memory_before = free,
                   !.sampled = Append(@, free),
                   !.i = 0]

\* execute_cleanup up to the loop (lines 169-178), on thread record r:
\* without the executable it returns at once; otherwise it samples.
execute_cleanup_enter(r, exe_exists, free) ==
    IF ~exe_exists
    THEN [r EXCEPT !.pc = "returned",
                   !.result = FailureResult("Executable not found", "", "", 0),
                   !.shown = Append(@, "error: Executable not found")]
    ELSE [r EXCEPT !.pc = "running",
                   !.memory_before = free,
                   !.sampled = Append(@, free),
                   !.i = 0]

\* The else branch of the loop (lines 186-195): the failed command's result.
execute_cleanup_fail(r, cmd, output) ==
    [r EXCEPT !.pc = "returned",
              !.result = FailureResult("Error in", cmd, output, r.memory_before)]

\* After the loop (lines 197-207): the second sample and the result.
execute_cleanup_finish(r, free) ==
    [r EXCEPT !.pc = "returned",
              !.sampled = Append(@, free),
              !.result = SuccessResult(r.memory_before, free)]

\* _handle_cleanup from its entry (lines 435-443) into execute_cleanup.
handle_cleanup_enter(cmds, exe_exists, free) ==
    IF cmds = <<>>
    THEN [Idle EXCEPT !.pc = "handled",
                      !.shown = <<"warning: select at least one">>]
    ELSE execute_cleanup_enter(
             [Idle EXCEPT !.selected_commands = cmds,
                          !.shown = IF Len(cmds) = Cardinality(CleanupCommand)
                                    THEN <<"warning: all selected">> ELSE <<>>],
             exe_exists, free)

\* The model starts a cleanup only while the history, on disk and in every
\* frame a thread is about to write, is short of MaxRecords records.
HistoryRoom ==
    /\ HistoryLen(memory_csv) < MaxRecords
    /\ \A t \in Sessions : Len(session[t].memory_df.rows) < MaxRecords

\* "Start Cleanup" is pressed on an idle thread with cmds selected.  The
\* tool may have gone since check_dependencies saw it.
handle_cleanup(s, cmds, free) ==
    /\ session[s].pc = "idle"
    /\ HistoryRoom
    /\ session' = [session EXCEPT ![s] = handle_cleanup_enter(cmds, exe_full, free)]
    /\ UNCHANGED <<memory_csv, exe_full, version_file, verdict, session_state, view>>

\* CurrentCommand with the loop variable ignored.
CurrentCommand_first(r) == r.selected_commands[1]

\* The command the loop is at.
CurrentCommand(r) == r.selected_commands[r.i + 1]

\* CommandExecutor.run when subprocess.run raises (lines 154-158): the
\* exception text and return code 1.
LaunchFailed(cmd) == [arg |-> cmd, launched |-> FALSE, stdout |-> "exception", returncode |-> 1]

\* An exception raised inside execute_cleanup: neither it nor
\* _handle_cleanup has a try, so no result is returned and the exception
\* ends the script run.
execute_cleanup_raises(r) ==
    [r EXCEPT !.pc = "handled", !.uncaught = TRUE]

\* Loop head with a command left.  CLEANUP_DESCRIPTIONS[cmd] (line 180)
\* raises KeyError for a token that is no CleanupCommand; otherwise
\* CommandExecutor.run starts the tool (line 181).  A launch that raises is
\* over at once, with return code 1.
run_tool(s, launches) ==
    LET r == session[s]
    IN /\ r.pc = "running"
       /\ r.i < Len(r.selected_commands)
       /\ session' = [session EXCEPT ![s] =
            IF CurrentCommand(r) \notin DOMAIN CLEANUP_DESCRIPTIONS
            THEN execute_cleanup_raises(r)
            ELSE IF launches
            THEN [r EXCEPT !.pc = "in_tool",
                           !.calls = Append(@, [arg |-> CurrentCommand(r), launched |-> TRUE,
                                                 stdout |-> "", returncode |-> -1])]
            ELSE execute_cleanup_fail(
                     [r EXCEPT !.calls = Append(@, LaunchFailed(CurrentCommand(r))),
                               !.shown = Append(@, "error: Command execution error")],
                     CurrentCommand(r), "exception")]
       /\ UNCHANGED <<memory_csv, exe_full, version_file, verdict, session_state, view>>

\* after_tool with the failure branch lost: the loop goes on after a
\* non-zero return code.
after_tool_continues(r, out) ==
    [r EXCEPT !.pc = "running",
              !.i = r.i + 1,
              !.calls[Len(r.calls)] =
                  [arg |-> CurrentCommand(r), launched |-> TRUE,
                   stdout |-> out.stdout, returncode |-> out.returncode]]

\* What the loop does with a finished tool process (lines 183-195).
after_tool(r, out) ==
    LET done == [r EXCEPT !.calls[Len(r.calls)] =
                     [arg |-> CurrentCommand(r), launched |-> TRUE,
                      stdout |-> out.stdout, returncode |-> out.returncode]]
    IN IF out.returncode = 0
       THEN [done EXCEPT !.pc = "running", !.i = r.i + 1]
       ELSE execute_cleanup_fail(done, CurrentCommand(r), out.stdout)

\* The tool process ends and subprocess.run returns.
tool_returns(s, out) ==
    /\ session[s].pc = "in_tool"
    /\ session' = [session EXCEPT ![s] = after_tool(session[s], out)]
    /\ UNCHANGED <<memory_csv, exe_full, version_file, verdict, session_state, view>>

\* Loop head with no command left: sample again and return.
finish_cleanup(s, free) ==
    LET r == session[s]
    IN /\ r.pc = "running"
       /\ r.i = Len(r.selected_commands)
       /\ session' = [session EXCEPT ![s] = execute_cleanup_finish(r, free)]
       /\ UNCHANGED <<memory_csv, exe_full, version_file, verdict, session_state, view>>

\* ----------------------------------------------- MemoryHistoryManager

\* NewData with a negative freed_memory recorded as 0.00.
NewData_clamped(record, timestamp) ==
    [columns |-> Columns,
     rows |-> << <<StrCell(<<timestamp>>),
                   StrCell(Format2f(record.memory_before)),
                   StrCell(Format2f(record.memory_after)),
                   StrCell(Format2f(IF record.freed_memory < 0 THEN 0
                                    ELSE record.freed_memory))>> >>]

\* The one-row frame save_record builds from a result (lines 219-225).
NewData(record, timestamp) ==
    [columns |-> Columns,
     rows |-> << <<StrCell(<<timestamp>>),
                   StrCell(Format2f(record.memory_before)),
                   StrCell(Format2f(record.memory_after)),
                   StrCell(Format2f(Abs(record.freed_memory)))>> >>]

\* The st.* message for the amount freed (lines 448-457).
FreedMessage(freed_memory_abs) ==
    IF freed_memory_abs > 500 THEN "success: freed"
    ELSE IF freed_memory_abs > 0 THEN "info: freed"
    ELSE "warning: no memory was freed"

\* handle_result with save_record called whatever the result.
handle_result_saves_always(r, timestamp) ==
    [Idle EXCEPT !.pc = "save_exists",
                 !.result = r.result,
                 !.shown = r.shown,
                 !.save_calls = r.save_calls + 1,
                 !.new_data = NewData(r.result, timestamp)]

\* _handle_cleanup once execute_cleanup has returned (lines 445-462), on
\* thread record r: a success is displayed and save_record is entered (its
\* timestamp taken and new_data built); a failure is displayed, no more.
handle_result(r, timestamp) ==
    IF r.result.success
    THEN [Idle EXCEPT !.pc = "save_exists",
                      !.result = r.result,
                      !.shown = r.shown \o <<"write: memory before, after, freed",
                                             FreedMessage(Abs(r.result.freed_memory))>>,
                      !.save_calls = r.save_calls + 1,
                      !.new_data = NewData(r.result, timestamp)]
    ELSE [Idle EXCEPT !.pc = "handled",
                      !.result = r.result,
                      !.shown = Append(r.shown, "error: cleanup failed")]

\* execute_cleanup has returned to _handle_cleanup.
cleanup_returned(s, timestamp) ==
    /\ session[s].pc = "returned"
    /\ session' = [session EXCEPT ![s] = handle_result(session[s], timestamp)]
    /\ UNCHANGED <<memory_csv, exe_full, version_file, verdict, session_state, view>>

\* save_record_except with the exception let through to _handle_cleanup.
save_record_except_raises(r) ==
    [r EXCEPT !.pc = "handled", !.uncaught = TRUE]

\* The except branch of save_record (lines 236-240).
save_record_except(r) ==
    [r EXCEPT !.pc = "handled",
              !.ret = [call |-> "save_record", value |-> FALSE],
              !.shown = Append(@, "error: Error saving memory usage history")]

\* save_record, line 227: does the file exist?
save_record_exists(r, f) ==
    IF f.exists
    THEN [r EXCEPT !.pc = "save_read"]
    ELSE [r EXCEPT !.pc = "save_write", !.memory_df = r.new_data]

save_exists(s) ==
    /\ session[s].pc = "save_exists"
    /\ session' = [session EXCEPT ![s] = save_record_exists(session[s], memory_csv)]
    /\ UNCHANGED <<memory_csv, exe_full, version_file, verdict, session_state, view>>

\* save_record, lines 228-229: read the file and append the new row.
save_record_read(r, f, io_ok) ==
    IF CanReadCsv(f) /\ io_ok
    THEN [r EXCEPT !.pc = "save_write",
                   !.memory_df = concat(read_csv(f), r.new_data)]
    ELSE save_record_except(r)

save_read(s, io_ok) ==
    /\ session[s].pc = "save_read"
    /\ session' = [session EXCEPT ![s] = save_record_read(session[s], memory_csv, io_ok)]
    /\ UNCHANGED <<memory_csv, exe_full, version_file, verdict, session_state, view>>

\* What to_csv leaves on disk when it gets n lines out: all of them, or,
\* failing, the first n of them in the truncated file; n = -1 is a file
\* that could not be opened and is left as it was.
WrittenFile(df, f, n) ==
    IF n = -1 THEN f
    ELSE [exists |-> TRUE, lines |-> SubSeq(to_csv(df).lines, 1, n)]

\* save_record, lines 233-235, and its except branch.
save_record_write(r, n) ==
    IF n = Len(to_csv(r.memory_df).lines)
    THEN [r EXCEPT !.pc = "handled",
                   !.ret = [call |-> "save_record", value |-> TRUE]]
    ELSE save_record_except(r)

save_write(s, n) ==
    /\ session[s].pc = "save_write"
    /\ session' = [session EXCEPT ![s] = save_record_write(session[s], n)]
    /\ memory_csv' = WrittenFile(session[s].memory_df, memory_csv, n)
    /\ UNCHANGED <<exe_full, version_file, verdict, session_state, view>>

\* load_history (lines 242-255): the frame, or None (here NoFrame with
\* loaded = FALSE) for a missing or unreadable file.
load_history(f) ==
    IF CanReadCsv(f)
    THEN [loaded |-> TRUE, df |-> read_csv(f)]
    ELSE [loaded |-> FALSE, df |-> NoFrame]

\* delete_history (lines 257-270): the file it leaves.
delete_history_file(f, unlink_ok) ==
    IF f.exists /\ unlink_ok THEN NoFile ELSE f

\* delete_history that reports success without looking at the file.
delete_history_unchecked(r, f, unlink_ok) ==
    [r EXCEPT !.pc = "handled",
              !.ret = [call |-> "delete_history", value |-> TRUE]]

\* delete_history (lines 257-270) on thread record r: its return value.
delete_history(r, f, unlink_ok) ==
    IF f.exists
    THEN IF unlink_ok
         THEN [r EXCEPT !.pc = "handled",
                        !.ret = [call |-> "delete_history", value |-> TRUE]]
         ELSE [r EXCEPT !.pc = "handled",
                        !.ret = [call |-> "delete_history", value |-> FALSE],
                        !.shown = Append(@, "error: Error deleting memory usage history")]
    ELSE [r EXCEPT !.pc = "handled",
                   !.ret = [call |-> "delete_history", value |-> FALSE]]

\* ------------------------------------------- HomePageUI, history section

\* The buttons of _render_memory_history that matter to the history.
HistoryButtons == {"Delete Memory Usage History", "Confirm Delete", "Cancel"}

\* st.session_state after SessionState.initialize (lines 679-680), and the
\* history buttons on the page the browser shows.  `del
\* st.session_state.confirm_delete` leaves the key absent until the next
\* run's initialize makes it False again; .get() of the absent key is None,
\* false like False, so the model has the one value FALSE for both.
FreshState == [confirm_delete |-> FALSE, buttons |-> {}]

\* _render_memory_history with no guard on the flag around the
\* confirmation buttons: "Confirm Delete" deletes whenever it is clicked.
render_memory_history_unguarded(r, st, f, click, unlink_ok) ==
    LET memory_df == load_history(f)
    IN IF ~(memory_df.loaded /\ Len(memory_df.df.rows) > 0)
       THEN [thread |-> r, state |-> [st EXCEPT !.buttons = {}], file |-> f]
       ELSE IF click = "Confirm Delete"
       THEN [thread |-> delete_history([r EXCEPT !.pressed = click], f, unlink_ok),
             state |-> [confirm_delete |-> FALSE, buttons |-> HistoryButtons],
             file |-> delete_history_file(f, unlink_ok)]
       ELSE [thread |-> [r EXCEPT !.pressed = click],
             state |-> [confirm_delete |-> (st.confirm_delete \/ click = "Delete Memory Usage History")
                                             /\ click # "Cancel",
                        buttons |-> HistoryButtons],
             file |-> f]

\* _render_memory_history (lines 464-520) in a script run started by a
\* click on the button `click` ("none": by something else), on thread
\* record r with session state st and history file f.  st.button returns
\* True for the clicked button if the run reaches it.  It gives the thread
\* record, the session state and the file the run leaves.
render_memory_history(r, st, f, click, unlink_ok) ==
    LET memory_df == load_history(f)
        requested == click = "Delete Memory Usage History"
        confirm_delete == st.confirm_delete \/ requested
        confirmed == confirm_delete /\ click = "Confirm Delete"
        cancelled == confirm_delete /\ click = "Cancel"
    IN IF ~(memory_df.loaded /\ Len(memory_df.df.rows) > 0)
       THEN [thread |-> r, state |-> [st EXCEPT !.buttons = {}], file |-> f]
       ELSE [thread |->
                 IF confirmed
                 THEN delete_history([r EXCEPT !.pressed = click], f, unlink_ok)
                 ELSE IF requested \/ cancelled THEN [r EXCEPT !.pressed = click]
                 ELSE r,
             state |-> [confirm_delete |-> confirm_delete /\ ~confirmed /\ ~cancelled,
                        buttons |-> IF confirm_delete THEN HistoryButtons
                                    ELSE {"Delete Memory Usage History"}],
             file |-> IF confirmed THEN delete_history_file(f, unlink_ok) ELSE f]

\* The user clicks a history button the page shows: the script runs
\* again, no cleanup started, and renders the history section.
press(s, click, unlink_ok) ==
    LET out == render_memory_history(Idle, session_state[s], memory_csv, click, unlink_ok)
    IN /\ session[s].pc = "idle"
       /\ click \in session_state[s].buttons
       /\ session' = [session EXCEPT ![s] = [out.thread EXCEPT !.pc = "rendered"]]
       /\ session_state' = [session_state EXCEPT ![s] = out.state]
       /\ memory_csv' = out.file
       /\ UNCHANGED <<exe_full, version_file, verdict, view>>

\* MemoryHistoryManager.delete_history called by a caller other than the
\* page.
delete(s, unlink_ok) ==
    /\ session[s].pc = "idle"
    /\ session' = [session EXCEPT ![s] =
           [delete_history(Idle, memory_csv, unlink_ok) EXCEPT !.pc = "rendered"]]
    /\ memory_csv' = delete_history_file(memory_csv, unlink_ok)
    /\ UNCHANGED <<exe_full, version_file, verdict, session_state, view>>

\* _handle_cleanup is over (or an exception has ended the run): the run
\* started by "Start Cleanup" goes on to render the history section (line
\* 431), no history button pressed, and ends.  After an exception nothing
\* below it is rendered.
rerun(s) ==
    LET out == render_memory_history(Idle, session_state[s], memory_csv, "none", TRUE)
    IN /\ session[s].pc = "handled"
       /\ session' = [session EXCEPT ![s] = Idle]
       /\ session_state' = [session_state EXCEPT ![s] =
              IF session[s].uncaught THEN [@ EXCEPT !.buttons = {}] ELSE out.state]
       /\ UNCHANGED <<memory_csv, exe_full, version_file, verdict, view>>

\* A script run started by a history button ends; the next one starts with
\* fresh locals.
run_ends(s) ==
    /\ session[s].pc = "rendered"
    /\ session' = [session EXCEPT ![s] = Idle]
    /\ UNCHANGED <<memory_csv, exe_full, version_file, verdict, session_state, view>>

\* ------------------------------------------------------- version check

\* Optional[str]: None, or a string (its characters).
None == [some |-> FALSE, text |-> <<>>]

Some(t) == [some |-> TRUE, text |-> t]

\* Python's truth value of an Optional[str]: None and "" are false.
Truthy(o) == o.some /\ Len(o.text) > 0

Whitespace == {" ", "\n"}

RECURSIVE lstrip(_)
lstrip(t) ==
    IF Len(t) > 0 /\ t[1] \in Whitespace THEN lstrip(Tail(t)) ELSE t

RECURSIVE rstrip(_)
rstrip(t) ==
    IF Len(t) > 0 /\ t[Len(t)] \in Whitespace
    THEN rstrip(SubSeq(t, 1, Len(t) - 1)) ELSE t

\* str.strip()
strip(t) == rstrip(lstrip(t))

NoVersionFile == [exists |-> FALSE, text |-> <<>>]

\* UpdateManager.get_local_version (lines 299-312): the stripped content of
\* the version file, None when it is missing or cannot be read.
get_local_version(f, io_ok) ==
    IF ~io_ok THEN None
    ELSE IF f.exists THEN Some(strip(f.text))
    ELSE None

\* check_for_updates testing for None instead of truth.
check_for_updates_is_none(local_version, tag_name) ==
    IF tag_name.some
    THEN IF ~local_version.some THEN "No local version found"
         ELSE IF local_version.text # tag_name.text THEN "A new version is available"
         ELSE "You are using the latest version"
    ELSE "Failed to check for updates"

\* UpdatesPageUI._check_for_updates (lines 549-565): the message shown for
\* a local version and the fetched tag_name.
check_for_updates(local_version, tag_name) ==
    IF Truthy(tag_name)
    THEN IF ~Truthy(local_version) THEN "No local version found"
         ELSE IF local_version.text # tag_name.text THEN "A new version is available"
         ELSE "You are using the latest version"
    ELSE "Failed to check for updates"

NoVerdict == [message |-> "none", local_version |-> None, tag_name |-> None]

VersionChars == {"1", "2", "\n"}

RECURSIVE Texts(_, _)
\* The texts over S of length n.
Texts(S, n) ==
    IF n = 0 THEN {<<>>}
    ELSE {Append(t, c) : t \in Texts(S, n - 1), c \in S}

\* What the release process may have left in the version file.
VersionTexts == UNION {Texts(VersionChars, n) : n \in 0..MaxVersionLen}

\* release_data.get("tag_name"), None when the request fails or the key is
\* missing.
ReleaseTags == {None} \cup {Some(t) : t \in {<<>>, <<"1">>, <<"2">>}}

\* The installation writes the version file.
write_version(text) ==
    /\ version_file' = [exists |-> TRUE, text |-> text]
    /\ UNCHANGED <<session, memory_csv, exe_full, verdict, session_state, view>>

\* The version file is removed.
remove_version ==
    /\ version_file.exists
    /\ version_file' = NoVersionFile
    /\ UNCHANGED <<session, memory_csv, exe_full, verdict, session_state, view>>

\* UpdatesPageUI.render with "Check for Updates" pressed (lines 533-539):
\* the local version is read, the release fetched, the comparison shown.
render_updates(io_ok, tag_name) ==
    LET local_version == get_local_version(version_file, io_ok)
    IN /\ verdict' = [message |-> check_for_updates(local_version, tag_name),
                      local_version |-> local_version,
                      tag_name |-> tag_name]
       /\ UNCHANGED <<session, memory_csv, exe_full, version_file, session_state, view>>

\* ------------------------------------------------------- specifications

\* No history table displayed yet.
NoView == [len |-> 0, page_size |-> 10, page_number |-> 1, start_idx |-> 0, end_idx |-> 0]


Init ==
    /\ session = [s \in Sessions |-> Idle]
    /\ memory_csv = NoFile
    /\ exe_full = TRUE
    /\ version_file = NoVersionFile
    /\ verdict = NoVerdict
    /\ session_state = [s \in Sessions |-> FreshState]
    /\ view = NoView

\* How many lines to_csv may get out for thread s: all of them, or, where
\* I/O can fail, fewer, or none with the file not even opened (-1).
WriteOutcomes(s, ok) ==
    LET all == Len(to_csv(session[s].memory_df).lines)
    IN IF FALSE \in ok THEN -1..all ELSE {all}

\* One step of thread s.  env gives the ranges its inputs are drawn from:
\* the selections, the memory samples, the clock's readings, what the tool
\* does, and ok, the outcomes of a file or process operation (TRUE: it
\* works).
Step(s, env) ==
    \/ \E cmds \in env.selections, free \in env.samples :
          handle_cleanup(s, cmds, free)
    \/ \E launches \in env.ok : run_tool(s, launches)
    \/ \E out \in env.tool : tool_returns(s, out)
    \/ \E free \in env.samples : finish_cleanup(s, free)
    \/ \E timestamp \in env.timestamps : cleanup_returned(s, timestamp)
    \/ save_exists(s)
    \/ \E io_ok \in env.ok : save_read(s, io_ok)
    \/ \E n \in WriteOutcomes(s, env.ok) : save_write(s, n)
    \/ \E click \in HistoryButtons, unlink_ok \in env.ok : press(s, click, unlink_ok)
    \/ rerun(s)
    \/ run_ends(s)

\* check_dependencies (lines 716-719): the missing tool is downloaded.
download_exe ==
    /\ ~exe_full
    /\ exe_full' = TRUE
    /\ UNCHANGED <<session, memory_csv, version_file, verdict, session_state, view>>

\* The tool is removed from the working directory.
remove_exe ==
    /\ exe_full
    /\ exe_full' = FALSE
    /\ UNCHANGED <<session, memory_csv, version_file, verdict, session_state, view>>

\* One browser session: the handlers run one after another, and every
\* file and process operation may fail.  The memory samples are the two
\* ties of the two-decimal rounding (equal samples give a freed memory of
\* 0.00, a later sample below the earlier a negative one).
Env ==
    [selections |-> Selections, samples |-> FreeSamples \ {0},
     timestamps |-> {"2024-01-01 00:00:00"},
     tool |-> ToolOutcomes, ok |-> BOOLEAN]

Next ==
    \/ \E s \in {1} : Step(s, Env)
    \/ download_exe
    \/ remove_exe

Spec == Init /\ [][Next]_vars

\* Two browser sessions of the same server process, each with its own script
\* thread, on the same tool and the same history file; the file system
\* works, so that what goes wrong is the threads' doing.
ConcEnv ==
    [selections |-> {<<"standbylist", "workingsets">>}, samples |-> {125},
     timestamps |-> Timestamps,
     tool |-> ToolOutcomes, ok |-> {TRUE}]


NextConc == \E s \in Sessions : Step(s, ConcEnv)

SpecConc == Init /\ [][NextConc]_vars

\* A token that is not the value of any CleanupCommand.
ForeignTokens == {"notacommand"}

\* Longest command list the direct caller of execute_cleanup passes.
MaxTokens == 2

\* The command lists a caller other than the multiselect can pass: tokens
\* in and outside the closed set.
TokenLists ==
    UNION {Arrangements(CleanupCommand \cup ForeignTokens, n) : n \in 0..MaxTokens}

\* A started process that prints the text an exception of subprocess.run
\* has (stdout is free text) and exits with status 1.
ToolPrintsErrorText == [launched |-> TRUE, stdout |-> "exception", returncode |-> 1]

\* execute_cleanup and CommandExecutor.run as functions of their inputs:
\* any command list, any tool behaviour, any I/O outcome.
CallerEnv ==
    [selections |-> TokenLists, samples |-> FreeSamples \ {375},
     timestamps |-> {"2024-01-01 00:00:00"},
     tool |-> ToolOutcomes \cup {ToolPrintsErrorText}, ok |-> BOOLEAN]

NextCaller ==
    \/ \E s \in {1} : Step(s, CallerEnv)
    \/ \E s \in {1}, unlink_ok \in BOOLEAN : delete(s, unlink_ok)
    \/ download_exe
    \/ remove_exe

SpecCaller == Init /\ [][NextCaller]_vars

\* Most records the history table is given in the model of its pages.
MaxShown == 30

\* st.slider("Records per page", min_value=5, max_value=50, step=5).
PageSizes == {5 * k : k \in 1..10}

\* max_value of st.number_input("Page") (line 491).
MaxPage(len, page_size) ==
    LET pages == (len \div page_size) + 1
    IN IF pages > 1 THEN pages ELSE 1

\* The slice of the table shown (lines 492-494).
Paginate(len, page_size, page_number) ==
    LET start_idx == (page_number - 1) * page_size
    IN [len |-> len, page_size |-> page_size, page_number |-> page_number,
        start_idx |-> start_idx,
        end_idx |-> IF start_idx + page_size < len THEN start_idx + page_size
                    ELSE len]

\* The history section is rendered for a history of len records, more than
\* 10 (line 489), the widgets new: 10 records per page, page 1.  (The
\* histories of the other specifications stay below 11 records and are
\* shown whole, line 497.)
show_history(len) ==
    /\ len > 10
    /\ view' = Paginate(len, 10, 1)
    /\ UNCHANGED <<session, memory_csv, exe_full, version_file, verdict, session_state>>

\* The slider is moved.  The number input keeps its value while its
\* max_value stays the same and is a new widget, at 1, when it changes.
slide_page_size(page_size) ==
    /\ view.len > 10
    /\ page_size # view.page_size
    /\ view' = Paginate(view.len, page_size,
                        IF MaxPage(view.len, page_size) = MaxPage(view.len, view.page_size)
                        THEN view.page_number ELSE 1)
    /\ UNCHANGED <<session, memory_csv, exe_full, version_file, verdict, session_state>>

\* A page number the number input accepts is entered.
turn_page(page_number) ==
    /\ view.len > 10
    /\ page_number \in 1..MaxPage(view.len, view.page_size)
    /\ page_number # view.page_number
    /\ view' = Paginate(view.len, view.page_size, page_number)
    /\ UNCHANGED <<session, memory_csv, exe_full, version_file, verdict, session_state>>

\* The paginated history table alone.
NextPage ==
    \/ \E len \in 11..MaxShown : show_history(len)
    \/ \E page_size \in PageSizes : slide_page_size(page_size)
    \/ \E page_number \in 1..(MaxShown \div 5 + 1) : turn_page(page_number)

SpecPage == Init /\ [][NextPage]_vars

\* The Updates page alone.
NextVersion ==
    \/ \E text \in VersionTexts : write_version(text)
    \/ remove_version
    \/ \E io_ok \in BOOLEAN, tag_name \in ReleaseTags : render_updates(io_ok, tag_name)

SpecVersion == Init /\ [][NextVersion]_vars

\* ----------------------------------------------------------------- claims

\* A finished call of the log that failed, and an unfinished one.
CallFailed(c) == c.returncode # 0 /\ c.returncode # -1

CallPending(c) == c.returncode = -1

\* Thread s is inside execute_cleanup, or has its result not yet handled.
InCleanup(s) == session[s].pc \in {"running", "in_tool"}

\* C1: in execute_cleanup, when the run of the k-th command returns a
\* non-zero status after the first k-1 returned 0, no later command is ever
\* run: the log of CommandExecutor.run calls holds exactly k calls, the
\* k-th for the k-th command, execute_cleanup has returned, and its result
\* has success = False and an error naming the k-th command.
C1_StopsAtFirstFailure ==
    \A s \in Sessions :
        LET r == session[s]
        IN \A k \in 1..Len(r.calls) :
               CallFailed(r.calls[k]) =>
                   /\ Len(r.calls) = k
                   /\ k <= Len(r.selected_commands)
                   /\ r.calls[k].arg = r.selected_commands[k]
                   /\ \A j \in 1..(k - 1) : r.calls[j].returncode = 0
                   /\ r.pc = "returned"
                   /\ r.result.success = FALSE
                   /\ r.result.error.msg = "Error in"
                   /\ r.result.error.cmd = r.selected_commands[k]

\* A run that failed at its second command with a third one selected.
C1_Witness ==
    \E s \in Sessions :
        LET r == session[s]
        IN /\ r.pc = "returned"
           /\ Len(r.calls) = 2
           /\ r.calls[2].launched
           /\ CallFailed(r.calls[2])
           /\ Len(r.selected_commands) > 2

\* Every selected command of thread record r was run and returned 0.
AllStepsExitedZero(r) ==
    /\ r.pc = "returned"
    /\ Len(r.selected_commands) > 0
    /\ Len(r.calls) = Len(r.selected_commands)
    /\ \A k \in 1..Len(r.calls) : r.calls[k].returncode = 0

\* C2: when every command of a non-empty selection exits 0, execute_cleanup
\* returns success = True with memory_before the sample taken before the
\* first command, memory_after the sample taken after the last, and
\* freed_memory their signed difference; exactly two samples are taken.
C2_SuccessResultIsSignedDifference ==
    \A s \in Sessions :
        LET r == session[s]
        IN AllStepsExitedZero(r) =>
               /\ r.result.success = TRUE
               /\ Len(r.sampled) = 2
               /\ r.result.memory_before = r.sampled[1]
               /\ r.result.memory_after = r.sampled[2]
               /\ r.result.freed_memory = r.sampled[2] - r.sampled[1]

\* A successful run during which free memory went down.
C2_Witness ==
    \E s \in Sessions :
        /\ AllStepsExitedZero(session[s])
        /\ session[s].sampled[2] < session[s].sampled[1]
        /\ session[s].result.freed_memory < 0

\* Thread s calls execute_cleanup in this step.
CallsExecuteCleanup(s) ==
    /\ session[s].pc = "idle"
    /\ session'[s].selected_commands # <<>>

\* C5: execute_cleanup called while the tool does not exist returns at
\* once with success = False and an error, having taken no memory sample
\* and run no command, whatever was selected; and no command is run nor
\* sample taken for that call afterwards.
C5_MissingToolFailsImmediately ==
    /\ [][\A s \in Sessions :
            (CallsExecuteCleanup(s) /\ ~exe_full) =>
                /\ session'[s].pc = "returned"
                /\ session'[s].result.success = FALSE
                /\ session'[s].result.error.msg = "Executable not found"
                /\ session'[s].sampled = <<>>
                /\ session'[s].calls = <<>>]_vars
    /\ [](\A s \in Sessions :
            session[s].result.error.msg = "Executable not found" =>
                /\ session[s].pc \in {"returned", "handled"}
                /\ session[s].sampled = <<>>
                /\ session[s].calls = <<>>
                /\ session[s].result.memory_before = 0
                /\ session[s].result.memory_after = 0)

\* execute_cleanup has returned for want of the tool, three commands
\* selected.
C5_Witness ==
    \E s \in Sessions :
        /\ session[s].pc = "returned"
        /\ ~exe_full
        /\ session[s].result.error.msg = "Executable not found"
        /\ Len(session[s].selected_commands) = 3

\* C6: within one execute_cleanup call the tool is run in the order of the
\* selection: the j-th call carries the j-th selected command, no command
\* is run twice, only the last call can be unfinished, and every call but
\* the last has returned 0 (so a call starts only after the one before it
\* returned 0).
C6_SequentialInOrder ==
    \A s \in Sessions :
        LET r == session[s]
        IN /\ Len(r.calls) <= Len(r.selected_commands)
           /\ \A j \in 1..Len(r.calls) :
                  /\ r.calls[j].arg = r.selected_commands[j]
                  /\ j < Len(r.calls) => r.calls[j].returncode = 0
                  /\ CallPending(r.calls[j]) => (j = Len(r.calls) /\ r.pc = "in_tool")
           /\ \A j, k \in 1..Len(r.calls) :
                  j # k => r.calls[j].arg # r.calls[k].arg
           /\ r.pc = "in_tool" => (Len(r.calls) = r.i + 1 /\ CallPending(r.calls[r.i + 1]))
           /\ r.pc = "running" => Len(r.calls) = r.i

\* The third command of a selection of four is running.
C6_Witness ==
    \E s \in Sessions :
        /\ session[s].pc = "in_tool"
        /\ Len(session[s].calls) = 3
        /\ Len(session[s].selected_commands) = 4

\* Thread s's save_record returns True in this step.
SaveSucceeds(s) ==
    /\ session[s].pc = "save_write"
    /\ session'[s].ret = [call |-> "save_record", value |-> TRUE]

\* A frame row as load_history gives it back once written: the two-decimal
\* texts as floats.
AsLoaded(row) ==
    [j \in 1..Len(row) |->
        IF row[j].dtype = "object" /\ IsNumeric(row[j].text)
        THEN FloatCell(ParseFloat(row[j].text))
        ELSE row[j]]

\* Lines of the file that are the column names.
HeaderRows(f) == Cardinality({k \in 1..Len(f.lines) : f.lines[k] = Columns})

\* C3: a successful save_record drops nothing: load_history after it gives
\* the records load_history gave before it (none for a file that did not
\* exist), in their order, followed by the new record, and the file has
\* the column names once, as its first line.  By induction N successful
\* calls in a row add exactly their N records in insertion order.
C3_AppendKeepsRecords ==
    [][\A s \in Sessions :
          SaveSucceeds(s) =>
              LET before == load_history(memory_csv)
                  after == load_history(memory_csv')
              IN /\ after.loaded
                 /\ after.df.rows =
                        before.df.rows \o <<AsLoaded(session[s].new_data.rows[1])>>
                 /\ memory_csv'.lines[1] = Columns
                 /\ HeaderRows(memory_csv') = 1]_vars

\* A save has succeeded on a store that already held a record.
C3_Witness ==
    \E s \in Sessions :
        /\ session[s].pc = "handled"
        /\ session[s].ret = [call |-> "save_record", value |-> TRUE]
        /\ HistoryLen(memory_csv) = 2
        /\ Len(session[s].memory_df.rows) = 2

\* Thread s holds the result of a cleanup that failed.
CleanupFailed(s) ==
    /\ session[s].result.success = FALSE
    /\ session[s].result.error.msg # "None"

\* C4: a cleanup that ends with success = False has memory_after unset
\* (0.0, no second sample taken) and leaves no trace in the history:
\* save_record is not called for it, and neither the steps of
\* execute_cleanup nor the handling of the failed result change the
\* history file.
C4_FailureLeavesHistoryAlone ==
    /\ [](\A s \in Sessions :
            CleanupFailed(s) =>
                /\ session[s].pc \in {"returned", "handled"}
                /\ session[s].result.memory_after = 0
                /\ session[s].result.freed_memory = 0
                /\ Len(session[s].sampled) <= 1
                /\ session[s].save_calls = 0
                /\ session[s].ret = NoReturn)
    /\ [][\A s \in Sessions :
            (CleanupFailed(s) \/ InCleanup(s) \/ CallsExecuteCleanup(s)) =>
                memory_csv' = memory_csv]_vars

\* A failed cleanup has been handled while the history held a record.
C4_Witness ==
    \E s \in Sessions :
        /\ CleanupFailed(s)
        /\ session[s].pc = "handled"
        /\ session[s].result.error.msg = "Error in"
        /\ HistoryLen(memory_csv) = 1

\* C7: appends to the history are serialized: a save_record that returns
\* True leaves in the store every record that was in it just before its
\* write, and one more.
C7_AppendsSerialized ==
    [][\A s \in Sessions :
          SaveSucceeds(s) =>
              LET before == load_history(memory_csv)
                  after == load_history(memory_csv')
              IN /\ Len(after.df.rows) = Len(before.df.rows) + 1
                 /\ \A k \in 1..Len(before.df.rows) :
                        after.df.rows[k] = before.df.rows[k]]_vars

\* C8: no two execute_cleanup runs are in progress at the same time.
C8_OneCleanupAtATime ==
    Cardinality({s \in Sessions : InCleanup(s)}) <= 1

\* Thread s calls delete_history in this step.
DeleteCalled(s) ==
    /\ session[s].pc = "idle"
    /\ session'[s].ret.call = "delete_history"

\* The history file comes into being only by save_record's write.
OnlySaveCreates ==
    (~memory_csv.exists /\ memory_csv'.exists) =>
        \E s \in Sessions : session[s].pc = "save_write"

\* C9 as claimed: delete_history on a store that does not exist returns
\* False, raises nothing and leaves it non-existent; on a store that exists
\* it removes the file and returns True, and load_history finds nothing
\* until save_record writes again.
C9_DeleteAsClaimed ==
    [][/\ \A s \in Sessions :
            DeleteCalled(s) =>
                /\ ~session'[s].uncaught
                /\ ~memory_csv'.exists
                /\ ~load_history(memory_csv').loaded
                /\ session'[s].ret.value = memory_csv.exists
       /\ OnlySaveCreates]_vars

\* C9: delete_history on a store that does not exist returns False, raises
\* nothing and leaves it non-existent; on a store that exists it returns
\* True exactly when the file is removed, after which load_history finds
\* nothing until save_record writes again; when the removal fails it
\* returns False, raises nothing, shows the error and leaves the store as
\* it was.
C9_DeleteHistory ==
    [][/\ \A s \in Sessions :
            DeleteCalled(s) =>
                /\ ~session'[s].uncaught
                /\ ~memory_csv.exists =>
                       /\ session'[s].ret.value = FALSE
                       /\ ~memory_csv'.exists
                       /\ session'[s].shown = <<>>
                /\ memory_csv.exists =>
                       /\ session'[s].ret.value = ~memory_csv'.exists
                       /\ session'[s].ret.value => ~load_history(memory_csv').loaded
                       /\ ~session'[s].ret.value =>
                              /\ memory_csv' = memory_csv
                              /\ session'[s].shown # <<>>
       /\ OnlySaveCreates]_vars

\* delete_history has removed the store and returned True.
C9_Witness ==
    \E s \in Sessions :
        /\ session[s].pc = "rendered"
        /\ session[s].ret = [call |-> "delete_history", value |-> TRUE]
        /\ ~memory_csv.exists

\* The outcome each message of _check_for_updates stands for.
OutcomeOf(message) ==
    CASE message = "Failed to check for updates" -> "CheckFailed"
      [] message = "No local version found" -> "NotInstalled"
      [] message = "You are using the latest version" -> "UpToDate"
      [] message = "A new version is available" -> "Outdated"
      [] OTHER -> "none"

\* The outcomes whose condition holds of (local, remote), absent(v) saying
\* which versions count as absent.
Outcomes(absent(_), local, remote) ==
    {o \in {"CheckFailed", "NotInstalled", "UpToDate", "Outdated"} :
        \/ o = "CheckFailed" /\ absent(remote)
        \/ o = "NotInstalled" /\ absent(local) /\ ~absent(remote)
        \/ o = "UpToDate" /\ ~absent(local) /\ ~absent(remote)
                          /\ local.text = remote.text
        \/ o = "Outdated" /\ ~absent(local) /\ ~absent(remote)
                          /\ local.text # remote.text}

IsNone(v) == ~v.some

IsNoneOrEmpty(v) == ~v.some \/ v.text = <<>>

\* C10 as claimed: the check shows the one outcome of: remote None ->
\* CheckFailed; local None and remote given -> NotInstalled; local equal
\* to remote -> UpToDate; otherwise Outdated; an empty string being a
\* version like any other.
C10_ClassifiesAsClaimed ==
    verdict.message # "none" =>
        Outcomes(IsNone, verdict.local_version, verdict.tag_name)
            = {OutcomeOf(verdict.message)}

\* C10: the check shows the one outcome of: remote None or empty ->
\* CheckFailed; local None or empty and remote non-empty -> NotInstalled;
\* both non-empty and equal -> UpToDate; both non-empty and different ->
\* Outdated.
C10_Classifies ==
    verdict.message # "none" =>
        Outcomes(IsNoneOrEmpty, verdict.local_version, verdict.tag_name)
            = {OutcomeOf(verdict.message)}

\* A version file holding only a line break was checked against a release.
C10_Witness ==
    /\ verdict.message = "No local version found"
    /\ verdict.local_version = Some(<<>>)
    /\ Truthy(verdict.tag_name)

\* save_record has been called for thread record r and returned False.
SaveFailed(r) == r.ret = [call |-> "save_record", value |-> FALSE]

\* C11: a persistence failure does not mask a successful cleanup: when
\* save_record returns False after a successful execute_cleanup, the result
\* held by _handle_cleanup is still the success result, its memory before,
\* after and freed were displayed (with the message for the amount freed)
\* before the save was tried, the failure is shown as a save error and not
\* as a cleanup failure, and no exception has left _handle_cleanup; a
\* thread that called save_record at all has raised nothing.
C11_SaveFailureKeepsSuccess ==
    \A s \in Sessions :
        LET r == session[s]
        IN /\ r.save_calls > 0 => (~r.uncaught /\ r.result.success)
           /\ SaveFailed(r) =>
                  /\ r.pc = "handled"
                  /\ r.save_calls = 1
                  /\ r.result = SuccessResult(r.result.memory_before,
                                              r.result.memory_after)
                  /\ r.shown[Len(r.shown)] = "error: Error saving memory usage history"
                  /\ \E k \in 1..(Len(r.shown) - 2) :
                         /\ r.shown[k] = "write: memory before, after, freed"
                         /\ r.shown[k + 1] = FreedMessage(Abs(r.result.freed_memory))
                  /\ \A k \in 1..Len(r.shown) : r.shown[k] # "error: cleanup failed"

\* save_record failed while rewriting a store that held a record, after a
\* cleanup that freed memory.
C11_Witness ==
    \E s \in Sessions :
        /\ SaveFailed(session[s])
        /\ session[s].result.freed_memory > 0
        /\ Len(session[s].memory_df.rows) = 2

\* A CleanupResult as execute_cleanup builds them: success with no error,
\* or failure with an error message and memory_after, freed_memory 0.0.
WellFormed(result) ==
    \/ result = SuccessResult(result.memory_before, result.memory_after)
    \/ /\ result.error.msg # "None"
       /\ result = FailureResult(result.error.msg, result.error.cmd,
                                 result.error.output, result.memory_before)

\* C12: execute_cleanup is a catch-all: whatever command list it is given,
\* tokens outside the closed set included, no exception leaves it, it
\* returns a well-formed CleanupResult, and the tool is never run with a
\* token outside the set.
C12_CatchAll ==
    \A s \in Sessions :
        LET r == session[s]
        IN /\ ~r.uncaught
           /\ r.pc = "returned" => WellFormed(r.result)
           /\ \A k \in 1..Len(r.calls) : r.calls[k].arg \in CleanupCommand

\* What CommandExecutor.run returns to its caller for a finished call.
CommandResult(c) == [output |-> c.stdout, returncode |-> c.returncode]

\* C13: CommandExecutor.run raises nothing for a non-zero exit status, and
\* what it returns for a launch that failed is a value it returns for no
\* process that started, so that its caller can tell the two apart.
C13_LaunchErrorDistinct ==
    \A s \in Sessions :
        LET r == session[s]
        IN /\ (\E k \in 1..Len(r.calls) : CallFailed(r.calls[k])) => ~r.uncaught
           /\ \A k \in 1..Len(r.calls) :
                  ~r.calls[k].launched =>
                      \A o \in CallerEnv.tool :
                          CommandResult(r.calls[k]) # CommandResult(o)

\* Thread s's save_record returns in this step, True or False.
SaveReturns(s) ==
    /\ session[s].pc \in {"save_read", "save_write"}
    /\ session'[s].pc = "handled"

\* v (thousandths) is x to two decimals: a whole number of hundredths no
\* further than half a hundredth from x.
TwoDecimalsOf(v, x) == v % 10 = 0 /\ Abs(v - x) <= 5

\* The loaded history row rec is the projection of result.
IsProjection(rec, result) ==
    /\ Len(rec) = 4
    /\ rec[1].dtype = "object"
    /\ \A j \in 2..4 : rec[j].dtype = "float64"
    /\ TwoDecimalsOf(rec[2].val, result.memory_before)
    /\ TwoDecimalsOf(rec[3].val, result.memory_after)
    /\ TwoDecimalsOf(rec[4].val, Abs(result.memory_after - result.memory_before))

\* The history once thread s's save_record has returned: the history
\* before it and one more record, the projection of the thread's result.
OneProjectionAppended(s) ==
    LET before == load_history(memory_csv)
        after == load_history(memory_csv')
    IN /\ after.loaded
       /\ Len(after.df.rows) = Len(before.df.rows) + 1
       /\ \A k \in 1..Len(before.df.rows) : after.df.rows[k] = before.df.rows[k]
       /\ IsProjection(after.df.rows[Len(after.df.rows)], session[s].result)

\* C14 as claimed: every successful cleanup handled by _handle_cleanup
\* appends exactly one history record, the projection of its result.
C14_EverySuccessAppends ==
    [][\A s \in Sessions : SaveReturns(s) => OneProjectionAppended(s)]_vars

\* C14: every successful cleanup handled by _handle_cleanup calls
\* save_record exactly once; when that call returns True the history is
\* the history before it and exactly one more record, whose Free Memory
\* Before and After are the result's memory_before and memory_after to two
\* decimals and whose Freed Memory is the absolute value of memory_after -
\* memory_before to two decimals, also when the difference is negative;
\* when it returns False no record has been added (the history is what a
\* failed rewrite left of the records before it).
C14_SuccessAppendsProjection ==
    /\ [](\A s \in Sessions :
            (session[s].result.success
                /\ session[s].pc \in {"save_exists", "save_read", "save_write", "handled"})
            => session[s].save_calls = 1)
    /\ [][\A s \in Sessions :
            /\ SaveSucceeds(s) => OneProjectionAppended(s)
            /\ (SaveReturns(s) /\ ~SaveSucceeds(s)) =>
                   LET before == load_history(memory_csv)
                       after == load_history(memory_csv')
                   IN /\ Len(after.df.rows) <= Len(before.df.rows)
                      /\ \A k \in 1..Len(after.df.rows) :
                             after.df.rows[k] = before.df.rows[k]]_vars

\* A cleanup during which free memory went down has been recorded as the
\* second record of the history.
C14_Witness ==
    \E s \in Sessions :
        /\ session[s].pc = "handled"
        /\ session[s].ret = [call |-> "save_record", value |-> TRUE]
        /\ session[s].result.freed_memory < 0
        /\ HistoryLen(memory_csv) = 2
        /\ IsProjection(load_history(memory_csv).df.rows[2], session[s].result)

\* st.button returns True for history button b in the script run thread s
\* makes in this step.
Pressed(s, b) == session[s].pc = "idle" /\ session'[s].pressed = b

\* C15: deleting the history is two-phase over the flag confirm_delete:
\* delete_history is called only in a run where "Confirm Delete" is pressed
\* while the flag is set; the flag becomes set only in a run where "Delete
\* Memory Usage History" is pressed and stays set until a run where
\* "Confirm Delete" or "Cancel" is pressed, so that it is set exactly while
\* a request is followed by neither; a Cancel press clears the flag and
\* deletes nothing, a Confirm press calls delete_history and clears the
\* flag, and neither is possible with the flag unset.
C15_TwoPhaseDelete ==
    [][\A s \in Sessions :
          LET flag == session_state[s].confirm_delete
              flag_after == session_state'[s].confirm_delete
          IN /\ DeleteCalled(s) => (Pressed(s, "Confirm Delete") /\ flag)
             /\ Pressed(s, "Confirm Delete") =>
                    (flag /\ DeleteCalled(s) /\ ~flag_after)
             /\ Pressed(s, "Cancel") =>
                    /\ flag /\ ~flag_after
                    /\ ~DeleteCalled(s)
                    /\ memory_csv' = memory_csv
             /\ Pressed(s, "Delete Memory Usage History") =>
                    (flag_after /\ ~DeleteCalled(s) /\ memory_csv' = memory_csv)
             /\ (~flag /\ flag_after) => Pressed(s, "Delete Memory Usage History")
             /\ (flag /\ ~flag_after) =>
                    (Pressed(s, "Confirm Delete") \/ Pressed(s, "Cancel"))]_vars

\* A requested deletion has been confirmed: the history is gone and the
\* flag is cleared, on a page that still shows the three buttons.
C15_Witness ==
    \E s \in Sessions :
        /\ session[s].pressed = "Confirm Delete"
        /\ session[s].ret = [call |-> "delete_history", value |-> TRUE]
        /\ ~session_state[s].confirm_delete
        /\ session_state[s].buttons = HistoryButtons
        /\ ~memory_csv.exists

\* The pages a record of the table (1..len) is shown on, for the table
\* and page size of the view.
PagesShowing(k) ==
    {p \in 1..MaxPage(view.len, view.page_size) :
        LET pg == Paginate(view.len, view.page_size, p)
        IN pg.start_idx < k /\ k <= pg.end_idx}

\* C16: in the paginated history view every selectable page shows a
\* non-empty slice: its start_idx is below the record count and below its
\* end_idx; and the pages 1..max together show every record exactly once.
C16_PagesNonEmpty ==
    view.len > 10 =>
        /\ view.page_size \in PageSizes
        /\ view.page_number \in 1..MaxPage(view.len, view.page_size)
        /\ view.start_idx < view.len
        /\ view.start_idx < view.end_idx
        /\ \A k \in 1..view.len : Cardinality(PagesShowing(k)) = 1

====
